---- MODULE Spec2Model ----
(***************************************************************************)
(* npcnix: a pull-based configuration-sync agent.                          *)
(*                                                                         *)
(* The module models                                                       *)
(*   - the persisted record Config (src/src/config.rs) and its derive      *)
(*     functions,                                                          *)
(*   - the randomized sleep time Config::cur_rng_sleep_time,               *)
(*   - the library operations push / pack / activate / pull / get_etag     *)
(*     (src/src/lib.rs),                                                   *)
(*   - the two daemon loops: npcnix::daemon (src/src/lib.rs) and           *)
(*     npcnix_daemon, the one the `daemon` command runs                    *)
(*     (src/src/bin/npcnix.rs), together with the `set` commands.          *)
(*                                                                         *)
(* Five specifications share the module:                                   *)
(*   Spec       the daemon loop, the `set` commands and the environment    *)
(*   SleepSpec  cur_rng_sleep_time / rng_sleep applied to bounded inputs   *)
(*   OpsSpec    the one-shot library operations on a small file system     *)
(*   ConfigSpec the record file: load, store and the init forms of `set`   *)
(*   EquivSpec  the two daemon loops run side by side on the same inputs   *)
(***************************************************************************)
EXTENDS Integers, FiniteSets, Sequences, TLC

VARIABLES
    variant,    \* which loop runs: "lib" (npcnix::daemon) or "bin" (npcnix_daemon)
    disk,       \* the persisted record (config.json)
    now,        \* wall clock, in seconds
    remoteTag,  \* remote URL -> version (ETag) of the object currently stored there
    pc,         \* the daemon's position in its loop
    config,     \* the record loaded at the top of the current iteration
    etag,       \* the tag fetched in the current iteration
    scratch,    \* the iteration's temporary directory
    cyc,        \* what the current iteration did so far (history)
    okTags,     \* tags fetched in an iteration whose pull, unpack and activation succeeded
    initTag,    \* the persisted tag the run started with (history)
    cmd,        \* the last `set` command executed (history)
    sl,         \* SleepSpec: inputs and results of cur_rng_sleep_time
    ops,        \* OpsSpec: file system, remote store and the last operation's effects
    st,         \* ConfigSpec: the record file, a record in memory and the last result
    eq          \* EquivSpec: the two daemon loops run side by side on the same inputs

vars == <<variant, disk, now, remoteTag, pc, config, etag, scratch, cyc, okTags, initTag, cmd, sl, ops, st, eq>>

daemonVars == <<variant, disk, now, remoteTag, pc, config, etag, scratch, cyc, okTags, initTag, cmd>>

-----------------------------------------------------------------------------
(* Bounds of the model *)

\* The clock of Spec stops the daemon's sleep once it would pass MaxTime.
MaxTime == 3

\* The jitter draw of cur_rng_sleep_time is a factor j / (2 * JitterSteps) with
\* j in JitterSteps .. 3 * JitterSteps, i.e. 0.5, ..., 1.5.
JitterSteps == 2

\* Width of the model's u64 / i64.  The source uses 64; the model keeps the
\* wrap-around of `as i64` and the saturating operations at a width TLC's
\* integers can hold.  2^(IntBits-1) / 1000, the largest number of seconds a
\* chrono::Duration holds, stays above 1.5 * 3600, the largest jittered average,
\* as 2^63 / 1000 does.
IntBits == 24

-----------------------------------------------------------------------------
(* Small helpers *)

Max(a, b) == IF a >= b THEN a ELSE b

RECURSIVE Pow2(_)
Pow2(n) == IF n = 0 THEN 1 ELSE 2 * Pow2(n - 1)

U64Max == Pow2(IntBits) - 1

I64Max == Pow2(IntBits - 1) - 1

\* Rust `x as i64` for a u64 x: two's complement reinterpretation.
AsI64(x) == IF x > I64Max THEN x - Pow2(IntBits) ELSE x

\* u64::saturating_mul and u64::saturating_sub
saturating_mul(a, b) == IF a * b > U64Max THEN U64Max ELSE a * b

saturating_sub(a, b) == IF a >= b THEN a - b ELSE 0

\* Option::None
None == "None"

-----------------------------------------------------------------------------
(* src/src/config.rs *)

default_min_sleep_secs == 15

default_max_sleep_secs == 120

default_max_sleep_after_hours == 24

\* impl Default for Config, evaluated at time t
DefaultConfig(t) ==
    [ remote |-> None,
      configuration |-> None,
      last_reconfiguration |-> t,
      last_etag |-> "",
      min_sleep_secs |-> default_min_sleep_secs,
      max_sleep_secs |-> default_max_sleep_secs,
      max_sleep_after_hours |-> default_max_sleep_after_hours ]

\* Config::with_configuration: Self { configuration: Some(..), ..self }
with_configuration(c, configuration) ==
    [c EXCEPT !.configuration = configuration]

\* Config::with_configuration_maybe_init
with_configuration_maybe_init(c, configuration, init) ==
    IF ~init \/ c.configuration = None
    THEN with_configuration(c, configuration)
    ELSE c

\* mutant: the struct update forgets the version tag
with_remote_resets(c, remote) ==
    [c EXCEPT !.remote = remote, !.last_etag = ""]

\* Config::with_remote: Self { remote: Some(..), ..self }
with_remote(c, remote) ==
    [c EXCEPT !.remote = remote]

\* mutant: the init form overwrites a value that is already set
with_remote_maybe_init_overwrites(c, remote, init) ==
    IF init \/ c.remote = None
    THEN with_remote(c, remote)
    ELSE c

\* Config::with_remote_maybe_init
with_remote_maybe_init(c, remote, init) ==
    IF ~init \/ c.remote = None
    THEN with_remote(c, remote)
    ELSE c

\* Config::with_updated_last_reconfiguration, chrono::Utc::now() = t
with_updated_last_reconfiguration(c, tag, t) ==
    [c EXCEPT !.last_etag = tag, !.last_reconfiguration = t]

\* Config::remote: Err("Remote not set") when absent
remote(c) ==
    IF c.remote = None THEN [ok |-> FALSE, val |-> None]
    ELSE [ok |-> TRUE, val |-> c.remote]

\* Config::configuration: Err("configuration not set") when absent
configuration(c) ==
    IF c.configuration = None THEN [ok |-> FALSE, val |-> None]
    ELSE [ok |-> TRUE, val |-> c.configuration]

\* Config::last_etag
last_etag(c) == c.last_etag

\* The record file: NoFile, CorruptFile (not a JSON document) or JsonFile(doc)
\* with doc a JSON object, a function from the keys below to JSON values;
\* Missing marks an absent key.
Keys ==
    { "remote", "configuration", "last_reconfiguration", "last_etag",
      "min_sleep_secs", "max_sleep_secs", "max_sleep_after_hours" }

NoFile == [kind |-> "absent"]

CorruptFile == [kind |-> "corrupt"]

JsonFile(doc) == [kind |-> "doc", doc |-> doc]

Missing == <<"missing">>

JNull == <<"null">>

JStr(s) == <<"str", s>>

JNum(n) == <<"num", n>>

\* A DateTime<Utc> is written as a string in RFC 3339 form
JDate(t) == <<"date", t>>

\* Serialize for Option<Url> / Option<String>
ser_option(v) == IF v = None THEN JNull ELSE JStr(v)

\* #[derive(Serialize)] for Config: every field is written
to_json(c) ==
    [ k \in Keys |->
        CASE k = "remote" -> ser_option(c.remote)
          [] k = "configuration" -> ser_option(c.configuration)
          [] k = "last_reconfiguration" -> JDate(c.last_reconfiguration)
          [] k = "last_etag" -> JStr(c.last_etag)
          [] k = "min_sleep_secs" -> JNum(c.min_sleep_secs)
          [] k = "max_sleep_secs" -> JNum(c.max_sleep_secs)
          [] k = "max_sleep_after_hours" -> JNum(c.max_sleep_after_hours) ]

\* Deserialize for an Option field: an absent key and null both give None
de_option(v) ==
    IF v = Missing \/ v = JNull THEN [ok |-> TRUE, val |-> None]
    ELSE IF v[1] = "str" THEN [ok |-> TRUE, val |-> v[2]]
    ELSE [ok |-> FALSE, val |-> None]

\* Deserialize for a field without a serde default: the key must be there
de_required(v, tag) ==
    IF v # Missing /\ v[1] = tag THEN [ok |-> TRUE, val |-> v[2]]
    ELSE [ok |-> FALSE, val |-> None]

\* Deserialize for a field with #[serde(default = "...")]
de_default(v, default) ==
    IF v = Missing THEN [ok |-> TRUE, val |-> default]
    ELSE IF v[1] = "num" THEN [ok |-> TRUE, val |-> v[2]]
    ELSE [ok |-> FALSE, val |-> None]

\* mutant: the tuning fields are always filled with their defaults
from_json_default_tuning(doc) ==
    LET r == de_option(doc["remote"])
        c == de_option(doc["configuration"])
        l == de_required(doc["last_reconfiguration"], "date")
        e == de_required(doc["last_etag"], "str")
    IN  IF r.ok /\ c.ok /\ l.ok /\ e.ok
        THEN [ ok |-> TRUE,
               val |-> [ remote |-> r.val, configuration |-> c.val,
                         last_reconfiguration |-> l.val, last_etag |-> e.val,
                         min_sleep_secs |-> default_min_sleep_secs,
                         max_sleep_secs |-> default_max_sleep_secs,
                         max_sleep_after_hours |-> default_max_sleep_after_hours ] ]
        ELSE [ok |-> FALSE, val |-> None]

\* #[derive(Deserialize)] for Config
from_json(doc) ==
    LET r == de_option(doc["remote"])
        c == de_option(doc["configuration"])
        l == de_required(doc["last_reconfiguration"], "date")
        e == de_required(doc["last_etag"], "str")
        mn == de_default(doc["min_sleep_secs"], default_min_sleep_secs)
        mx == de_default(doc["max_sleep_secs"], default_max_sleep_secs)
        h == de_default(doc["max_sleep_after_hours"], default_max_sleep_after_hours)
    IN  IF r.ok /\ c.ok /\ l.ok /\ e.ok /\ mn.ok /\ mx.ok /\ h.ok
        THEN [ ok |-> TRUE,
               val |-> [ remote |-> r.val, configuration |-> c.val,
                         last_reconfiguration |-> l.val, last_etag |-> e.val,
                         min_sleep_secs |-> mn.val, max_sleep_secs |-> mx.val,
                         max_sleep_after_hours |-> h.val ] ]
        ELSE [ok |-> FALSE, val |-> None]

\* Config::load: Ok(serde_json::from_reader(std::fs::File::open(path)?)?)
Config_load(file) ==
    IF file.kind # "doc" THEN [ok |-> FALSE, val |-> None]
    ELSE from_json(file.doc)

\* misc::store_json_pretty_to_file: the file holds the serialized value
store_json_pretty_to_file(c) == JsonFile(to_json(c))

\* Config::store
Config_store(c) == store_json_pretty_to_file(c)

\* DataDir::load_config at time t: a fresh record when no file exists
DataDir_load_config(file, t) ==
    IF file.kind = "absent" THEN [ok |-> TRUE, val |-> DefaultConfig(t)]
    ELSE Config_load(file)

\* 60 * 60, the seconds of an hour (max_sleep_after_hours.saturating_mul(60 * 60))
SecsPerHour == 3600

\* 60f32 * 60f32, the upper clamp of the average sleep time
MaxAvgSecs == 3600

\* 0.01, the lower clamp of the average sleep time, is 1 / MinAvgInv
MinAvgInv == 100

\* The draws of rand::thread_rng().gen_range(avg * 0.5 ..= avg * 1.5): the
\* drawn value is avg * j / (2 * JitterSteps).
Jitter == JitterSteps .. 3 * JitterSteps

\* (since_last_update.num_seconds() as f32 / (hours * 3600) as f32).clamp(0, 1)
\* as a fraction <<numerator, denominator>>.  since >= 1, so a zero divisor
\* gives +infinity, which clamps to 1.
duration_ratio(since, hours) ==
    LET span == saturating_mul(hours, SecsPerHour)
    IN  IF span = 0 \/ since >= span THEN <<1, 1>> ELSE <<since, span>>

\* (min as f32 + ratio * max.saturating_sub(min) as f32).clamp(0.01, 3600.0)
\* as a fraction <<numerator, denominator>>
\* The upper clamp is decided before the sum is formed (n >= 3600 * d exactly
\* when ratio[1] * diff >= room * d), so that no product leaves TLC's integers.
avg_duration_secs(c, ratio) ==
    LET diff == saturating_sub(c.max_sleep_secs, c.min_sleep_secs)
        d == ratio[2]
        room == MaxAvgSecs - c.min_sleep_secs
        n == c.min_sleep_secs * d + ratio[1] * diff
    IN  IF room <= 0 THEN <<MaxAvgSecs, 1>>
        ELSE IF ratio[1] > 0 /\ diff >= (room * d + ratio[1] - 1) \div ratio[1]
             THEN <<MaxAvgSecs, 1>>
        ELSE IF n < d /\ MinAvgInv * n < d THEN <<1, MinAvgInv>>
        ELSE <<n, d>>

\* mutant: the elapsed time shortens the sleep instead of lengthening it
cur_rng_sleep_time_inverted(c, t, j) ==
    LET since == Max(1, t - c.last_reconfiguration)
        r == duration_ratio(since, c.max_sleep_after_hours)
        avg == avg_duration_secs(c, <<r[2] - r[1], r[2]>>)
        rnd == (avg[1] * j) \div (avg[2] * 2 * JitterSteps)
    IN  Max(AsI64(c.min_sleep_secs), rnd)

\* Config::cur_rng_sleep_time at time t with jitter draw j, in seconds.
\* f32 arithmetic is modelled by exact fractions; `rnd_time as i64` truncates.
cur_rng_sleep_time(c, t, j) ==
    LET since_last_update == Max(1, t - c.last_reconfiguration)
        ratio == duration_ratio(since_last_update, c.max_sleep_after_hours)
        avg == avg_duration_secs(c, ratio)
        rnd_time == (avg[1] * j) \div (avg[2] * 2 * JitterSteps)
    IN  Max(AsI64(c.min_sleep_secs), rnd_time)

\* chrono counts a Duration in milliseconds in an i64
MillisPerSec == 1000

\* chrono::Duration::seconds(s) panics ("Duration::seconds out of bounds")
\* unless -i64::MAX / 1000 <= s <= i64::MAX / 1000
duration_seconds_in_bounds(s) ==
    /\ s <= I64Max \div MillisPerSec
    /\ s >= -(I64Max \div MillisPerSec)

\* Config::rng_sleep up to the start of thread::sleep: which of the aborts of
\* cur_rng_sleep_time and rng_sleep happens, "none" when the thread sleeps.
rng_sleep(c, t, j) ==
    LET since_last_update == Max(1, t - c.last_reconfiguration)
        ratio == duration_ratio(since_last_update, c.max_sleep_after_hours)
        avg == avg_duration_secs(c, ratio)
        secs == cur_rng_sleep_time(c, t, j)
    IN  IF ~(0 <= ratio[1]) THEN "assert_duration_ratio"
        ELSE IF ~(0 < avg[1] * j) THEN "assert_rnd_time"
        ELSE IF ~duration_seconds_in_bounds(secs) THEN "duration_out_of_bounds"
        ELSE IF secs < 0 THEN "cant_be_negative"
        ELSE "none"

-----------------------------------------------------------------------------
(* src/src/lib.rs: the operations.  Each returns its result together with the
   external steps it started; the actions below apply them to the state. *)

\* The remotes of the model and their URL schemes (Url::scheme)
S3Urls == {"s3://a/cfg", "s3://b/cfg"}

Urls == S3Urls \cup {"ftp://c/cfg"}

\* mutant: every URL is handed to the s3 backend
scheme_always_s3(u) == "s3"

scheme(u) == IF u \in S3Urls THEN "s3" ELSE "ftp"

\* Outcomes of an external `aws` / activation command: it could not be
\* started, it ran and reported success, it ran and reported failure.
CmdOutcomes == {"spawn_error", "success", "nonzero"}

\* mutant: the manifest check accepts every directory
verify_flake_src_skipped(hasFlake) == "Ok"

\* verify_flake_src: Err unless src/flake.nix exists
verify_flake_src(hasFlake) ==
    IF ~hasFlake THEN "ValidationError" ELSE "Ok"

\* activate(src, configuration) with the activation command ending as `mech`.
\* `.status()?` fails only when the command cannot be started; the exit
\* status it returns is dropped.
activate(hasFlake, mech) ==
    IF verify_flake_src(hasFlake) # "Ok"
    THEN [result |-> verify_flake_src(hasFlake), ran |-> FALSE]
    ELSE IF mech = "spawn_error"
    THEN [result |-> "IoError", ran |-> FALSE]
    ELSE [result |-> "Ok", ran |-> TRUE]

\* get_etag(remote) / get_etag_s3: tag is the remote object's current ETag
get_etag(u, tag, aws) ==
    IF scheme(u) # "s3"
    THEN [result |-> "UnsupportedScheme", spawned |-> FALSE, etag |-> ""]
    ELSE IF aws = "spawn_error"
    THEN [result |-> "IoError", spawned |-> FALSE, etag |-> ""]
    ELSE IF aws = "nonzero"
    THEN [result |-> "TransportError", spawned |-> TRUE, etag |-> ""]
    ELSE [result |-> "Ok", spawned |-> TRUE, etag |-> tag]

\* A directory: absent, or what it holds (the bundle version unpacked into it
\* and whether flake.nix is among its files).
NoDir == [exists |-> FALSE, ver |-> "", flake |-> FALSE]

EmptyDir == [exists |-> TRUE, ver |-> "", flake |-> FALSE]

\* Bundle versions; their ETag is the version name.
Versions == {"v1", "v2"}

Bundle(v) == [exists |-> TRUE, ver |-> v, flake |-> TRUE]

\* pull(remote, dst) / pull_s3 / unpack_archive_to.  `aws` is how `aws s3 cp`
\* ends, `unpackOk` whether create_dir_all + zstd + tar unpack succeed.  The
\* child's exit status is not inspected (child.wait()? only waits); a failed
\* download leaves whatever the truncated stream unpacked to, here nothing.
pull(u, ver, aws, unpackOk) ==
    IF scheme(u) # "s3"
    THEN [result |-> "UnsupportedScheme", spawned |-> FALSE, dst |-> NoDir]
    ELSE IF aws = "spawn_error"
    THEN [result |-> "IoError", spawned |-> FALSE, dst |-> NoDir]
    ELSE IF ~unpackOk
    THEN [result |-> "IoError", spawned |-> TRUE, dst |-> EmptyDir]
    ELSE IF aws = "nonzero"
    THEN [result |-> "Ok", spawned |-> TRUE, dst |-> EmptyDir]
    ELSE [result |-> "Ok", spawned |-> TRUE, dst |-> Bundle(ver)]

\* push(src, remote) / push_s3 / pack_archive_from.  `uploaded` tells whether
\* the remote object was replaced.
push(hasFlake, u, aws) ==
    IF verify_flake_src(hasFlake) # "Ok"
    THEN [result |-> verify_flake_src(hasFlake), spawned |-> FALSE, uploaded |-> FALSE]
    ELSE IF scheme(u) # "s3"
    THEN [result |-> "UnsupportedScheme", spawned |-> FALSE, uploaded |-> FALSE]
    ELSE IF aws = "spawn_error"
    THEN [result |-> "IoError", spawned |-> FALSE, uploaded |-> FALSE]
    ELSE [result |-> "Ok", spawned |-> TRUE, uploaded |-> (aws = "success")]

\* pack(src, dst): create_new(true) refuses an existing dst
pack(hasFlake, dstExists) ==
    IF verify_flake_src(hasFlake) # "Ok"
    THEN [result |-> verify_flake_src(hasFlake), created |-> FALSE]
    ELSE IF dstExists
    THEN [result |-> "IoError", created |-> FALSE]
    ELSE [result |-> "Ok", created |-> TRUE]

-----------------------------------------------------------------------------
(* The daemon loop: npcnix::daemon (src/src/lib.rs) and npcnix_daemon
   (src/src/bin/npcnix.rs).  Both run the same steps up to activation; only
   npcnix::daemon stores the new tag afterwards.  Every `?` of the loop body
   returns the error from the function, which ends the process. *)

Confs == {"nodeA", "nodeB"}

\* Marks a step the iteration has not taken
NotYet == "-"

\* The part of an iteration's history recorded in cyc
NewCycle ==
    [ same     |-> FALSE,    \* the fetched tag equalled config.last_etag
      pulled   |-> FALSE,    \* pull + unpack returned Ok
      mech     |-> "none",   \* how the activation command ended
      activate |-> "none",   \* what activate returned
      stored   |-> FALSE,    \* update_last_reconfiguration stored the record
      err      |-> "none",   \* the error the loop returned
      startRemote |-> NotYet,  \* remote of the persisted record when the iteration loaded it
      startConf   |-> NotYet,  \* configuration of the persisted record at that moment
      startTag    |-> NotYet,  \* last_etag of the persisted record at that moment
      fetched     |-> NotYet,  \* the remote handed to get_etag
      compared    |-> NotYet,  \* the tag the fetched tag was compared with
      pulledFrom  |-> NotYet,  \* the remote handed to pull
      flakeArg    |-> NotYet,  \* the configuration handed to activate
      activated   |-> NotYet ] \* the bundle version the activation command switched to

NoCmd == [op |-> "none", arg |-> None]

\* Tuning of the records of Spec: sleeps of 1 to 3 seconds
DaemonRecords ==
    { [ remote |-> r, configuration |-> c, last_reconfiguration |-> 0,
        last_etag |-> t, min_sleep_secs |-> 1, max_sleep_secs |-> 2,
        max_sleep_after_hours |-> 0 ] :
      r \in {None}, c \in {None}, t \in {"", "v1"} }

SleepIdle ==
    [ c |-> DefaultConfig(0), j |-> JitterSteps, t |-> 0, done |-> FALSE, d |-> 0,
      abort |-> "none", pt |-> 0, pdone |-> FALSE, pd |-> 0 ]

OpsIdle == [dirs |-> <<>>, files |-> {}, store |-> <<>>, last |-> [op |-> "none"]]

\* The values of st and eq while another specification runs
ConfigIdle == [op |-> "none"]

EquivIdle == [n |-> 0]

Init ==
    /\ variant \in {"lib", "bin"}
    /\ disk \in DaemonRecords
    /\ now = 0
    /\ remoteTag = [u \in S3Urls |-> "v1"]
    /\ pc = "load"
    /\ config = disk
    /\ etag = ""
    /\ scratch = NoDir
    /\ cyc = NewCycle
    /\ okTags = {}
    /\ initTag = disk.last_etag
    /\ cmd = NoCmd
    /\ sl = SleepIdle
    /\ ops = OpsIdle
    /\ st = ConfigIdle
    /\ eq = EquivIdle

\* The persisted record behind DataDir / opts::Common: load_config reads it,
\* store_config replaces it as a whole.
load_config(d) == d

store_config(d, c) == c

\* data_dir.update_last_reconfiguration(&etag): load, derive, store
update_last_reconfiguration(d, tag, t) ==
    store_config(d, with_updated_last_reconfiguration(load_config(d), tag, t))

\* mutant: the temporary directory outlives its iteration
tmp_dir_kept(dir) == dir

\* Drop for tempfile::TempDir at the end of the scope that owns tmp_dir: the
\* directory and what it holds are removed
tmp_dir_dropped(dir) == NoDir

\* mutant: the record is loaded once, when the daemon starts
daemon_config_once(d, loaded) == loaded

\* let config = &data_dir.load_config()?; at the top of every iteration
daemon_config(d, loaded) == load_config(d)

\* mutant: the remote is read again from the persisted record
daemon_remote_reloaded(c, d) == remote(load_config(d))

\* config.remote() for get_etag and pull: the iteration's own record, whatever
\* the persisted record d holds by now
daemon_remote(c, d) == remote(c)

\* The tag at remote u; a URL without backend has none
TagAt(u) == IF u \in S3Urls THEN remoteTag[u] ELSE ""

\* `return Err(e)` out of the loop: the process ends, tmp_dir is dropped
Exit(e) ==
    /\ pc' = "exited"
    /\ cyc' = [cyc EXCEPT !.err = e]
    /\ scratch' = tmp_dir_dropped(scratch)

\* data_dir.load_config()? / opts.common.load_config()?
DaemonLoad(ok) ==
    /\ pc = "load"
    /\ IF ok
       THEN /\ config' = daemon_config(disk, config)
            /\ cyc' = [NewCycle EXCEPT !.startRemote = disk.remote,
                                       !.startConf = disk.configuration,
                                       !.startTag = disk.last_etag]
            /\ pc' = "sleep"
            /\ scratch' = scratch
       ELSE /\ pc' = "exited"
            /\ cyc' = [NewCycle EXCEPT !.err = "ConfigurationError"]
            /\ scratch' = tmp_dir_dropped(scratch)
            /\ config' = config
    /\ UNCHANGED <<variant, disk, now, remoteTag, etag, okTags, initTag, cmd, sl, ops, st, eq>>

\* config.rng_sleep(): thread::sleep(cur_rng_sleep_time())
DaemonSleep(j) ==
    /\ pc = "sleep"
    /\ now + cur_rng_sleep_time(config, now, j) <= MaxTime
    /\ now' = now + cur_rng_sleep_time(config, now, j)
    /\ pc' = "fetch"
    /\ UNCHANGED <<variant, disk, remoteTag, config, etag, scratch, cyc, okTags, initTag, cmd, sl, ops, st, eq>>

\* mutant: the comparison never reports an unchanged remote
remote_not_changed_never(c, tag) == FALSE

\* config.last_etag() == etag
remote_not_changed(c, tag) == last_etag(c) = tag

\* let etag = get_etag(config.remote()?)?; if config.last_etag() == etag { continue; }
DaemonFetch(aws) ==
    /\ pc = "fetch"
    /\ LET u == daemon_remote(config, disk)
       IN  IF ~u.ok
           THEN /\ pc' = "exited"
                /\ cyc' = [cyc EXCEPT !.err = "ConfigurationError", !.fetched = u.val]
                /\ scratch' = tmp_dir_dropped(scratch)
                /\ etag' = etag
           ELSE LET r == get_etag(u.val, TagAt(u.val), aws)
                IN  IF r.result # "Ok"
                    THEN /\ pc' = "exited"
                         /\ cyc' = [cyc EXCEPT !.err = r.result, !.fetched = u.val]
                         /\ scratch' = tmp_dir_dropped(scratch)
                         /\ etag' = etag
                    ELSE /\ etag' = r.etag
                         /\ cyc' = [cyc EXCEPT !.same = (last_etag(config) = r.etag),
                                               !.fetched = u.val,
                                               !.compared = last_etag(config)]
                         /\ pc' = IF remote_not_changed(config, r.etag)
                                  THEN "load" ELSE "tmpdir"
                         /\ scratch' = scratch
    /\ UNCHANGED <<variant, disk, now, remoteTag, config, okTags, initTag, cmd, sl, ops, st, eq>>

\* let tmp_dir = tempfile::TempDir::new()?;
DaemonTmpDir(ok) ==
    /\ pc = "tmpdir"
    /\ IF ok
       THEN /\ scratch' = EmptyDir
            /\ pc' = "pull"
            /\ cyc' = cyc
       ELSE Exit("IoError")
    /\ UNCHANGED <<variant, disk, now, remoteTag, config, etag, okTags, initTag, cmd, sl, ops, st, eq>>

\* pull(config.remote()?, tmp_dir.path())?
DaemonPull(aws, unpackOk) ==
    /\ pc = "pull"
    /\ LET u == daemon_remote(config, disk)
       IN  IF ~u.ok
           THEN /\ pc' = "exited"
                /\ cyc' = [cyc EXCEPT !.err = "ConfigurationError", !.pulledFrom = u.val]
                /\ scratch' = tmp_dir_dropped(scratch)
           ELSE LET r == pull(u.val, TagAt(u.val), aws, unpackOk)
                IN  IF r.result # "Ok"
                    THEN /\ pc' = "exited"
                         /\ cyc' = [cyc EXCEPT !.err = r.result, !.pulledFrom = u.val]
                         /\ scratch' = tmp_dir_dropped(scratch)
                    ELSE /\ scratch' = r.dst
                         /\ cyc' = [cyc EXCEPT !.pulled = TRUE, !.pulledFrom = u.val]
                         /\ pc' = "activate"
    /\ UNCHANGED <<variant, disk, now, remoteTag, config, etag, okTags, initTag, cmd, sl, ops, st, eq>>

\* activate(tmp_dir.path(), config.configuration())?  The source passes the
\* Result of configuration() on; an absent configuration ("configuration not
\* set") is taken as the error it carries.  In npcnix_daemon the iteration
\* ends here and tmp_dir is dropped.
DaemonActivate(mech) ==
    /\ pc = "activate"
    /\ IF ~configuration(config).ok
       THEN /\ pc' = "exited"
            /\ cyc' = [cyc EXCEPT !.err = "ConfigurationError",
                                  !.flakeArg = configuration(config).val]
            /\ scratch' = tmp_dir_dropped(scratch)
            /\ okTags' = okTags
       ELSE LET r == activate(scratch.flake, mech)
            IN  IF r.result # "Ok"
                THEN /\ pc' = "exited"
                     /\ scratch' = tmp_dir_dropped(scratch)
                     /\ cyc' = [cyc EXCEPT !.err = r.result, !.activate = r.result,
                                           !.mech = IF r.ran THEN mech ELSE "none",
                                           !.flakeArg = configuration(config).val]
                     /\ okTags' = okTags
                ELSE /\ cyc' = [cyc EXCEPT !.activate = "Ok", !.mech = mech,
                                           !.flakeArg = configuration(config).val,
                                           !.activated = IF mech = "success"
                                                         THEN scratch.ver ELSE NotYet]
                     /\ okTags' = IF mech = "success" THEN okTags \cup {etag} ELSE okTags
                     /\ pc' = IF variant = "lib" THEN "store" ELSE "load"
                     /\ scratch' = IF variant = "lib" THEN scratch
                                   ELSE tmp_dir_dropped(scratch)
    /\ UNCHANGED <<variant, disk, now, remoteTag, config, etag, initTag, cmd, sl, ops, st, eq>>

\* data_dir.update_last_reconfiguration(&etag)?; then the iteration ends and
\* tmp_dir is dropped (npcnix::daemon only)
DaemonStore(ok) ==
    /\ pc = "store"
    /\ IF ok
       THEN /\ disk' = update_last_reconfiguration(disk, etag, now)
            /\ cyc' = [cyc EXCEPT !.stored = TRUE]
            /\ pc' = "load"
            /\ scratch' = tmp_dir_dropped(scratch)
       ELSE Exit("ConfigurationError") /\ disk' = disk
    /\ UNCHANGED <<variant, now, remoteTag, config, etag, okTags, initTag, cmd, sl, ops, st, eq>>

\* The process is killed from outside; nothing is cleaned up.
Kill ==
    /\ pc \notin {"exited", "killed"}
    /\ pc' = "killed"
    /\ UNCHANGED <<variant, disk, now, remoteTag, config, etag, scratch, cyc, okTags, initTag, cmd, sl, ops, st, eq>>

\* Somebody replaces the object stored at remote u.
RemoteChange(u, v) ==
    /\ remoteTag[u] # v
    /\ remoteTag' = [remoteTag EXCEPT ![u] = v]
    /\ UNCHANGED <<variant, disk, now, pc, config, etag, scratch, cyc, okTags, initTag, cmd, sl, ops, st, eq>>

\* Time passes.
Tick ==
    /\ now < MaxTime
    /\ now' = now + 1
    /\ UNCHANGED <<variant, disk, remoteTag, pc, config, etag, scratch, cyc, okTags, initTag, cmd, sl, ops, st, eq>>

\* `npcnix set remote <url>`: store_config(&load_config()?.with_remote(url))
SetRemote(u) ==
    /\ disk' = store_config(disk, with_remote(load_config(disk), u))
    /\ cmd' = [op |-> "set_remote", arg |-> u]
    /\ UNCHANGED <<variant, now, remoteTag, pc, config, etag, scratch, cyc, okTags, initTag, sl, ops, st, eq>>

\* `npcnix set configuration <id>`:
\* store_config(&load_config()?.with_configuration(configuration))
SetConfiguration(c) ==
    /\ disk' = store_config(disk, with_configuration(load_config(disk), c))
    /\ cmd' = [op |-> "set_configuration", arg |-> c]
    /\ UNCHANGED <<variant, now, remoteTag, pc, config, etag, scratch, cyc, okTags, initTag, sl, ops, st, eq>>

Next ==
    \/ \E ok \in BOOLEAN : DaemonLoad(ok)
    \/ \E j \in Jitter : DaemonSleep(j)
    \/ \E aws \in CmdOutcomes : DaemonFetch(aws)
    \/ \E ok \in BOOLEAN : DaemonTmpDir(ok)
    \/ \E aws \in CmdOutcomes, unpackOk \in BOOLEAN : DaemonPull(aws, unpackOk)
    \/ \E mech \in CmdOutcomes : DaemonActivate(mech)
    \/ \E ok \in BOOLEAN : DaemonStore(ok)
    \/ Kill
    \/ \E u \in S3Urls, v \in Versions : RemoteChange(u, v)
    \/ Tick
    \/ \E u \in Urls : SetRemote(u)
    \/ \E c \in Confs : SetConfiguration(c)

Spec == Init /\ [][Next]_vars

-----------------------------------------------------------------------------
(* Properties of the daemon loop, checked under Spec *)

\* C1: the persisted lastVersionTag is always the tag the run started with or
\* a tag fetched in an iteration whose pull, unpack and activation all
\* succeeded (the activation command reported success) before the store.
C1_CrashSafety == disk.last_etag \in {initTag} \cup okTags

\* C2: an iteration whose fetched tag equals the loaded lastVersionTag goes
\* straight back to the top of the loop: it made no scratch directory, no
\* pull, no activation and no store; its own steps (load, sleep, fetch) leave
\* the persisted record as it is, and the persisted tag, time and tuning are
\* still those it loaded.
C2_UnchangedRemoteNoEffects ==
    /\ [](cyc.same =>
            /\ pc \in {"load", "killed"}
            /\ scratch = NoDir
            /\ ~cyc.pulled
            /\ cyc.mech = "none"
            /\ cyc.activate = "none"
            /\ ~cyc.stored
            /\ disk.last_etag = config.last_etag
            /\ disk.last_reconfiguration = config.last_reconfiguration
            /\ disk.min_sleep_secs = config.min_sleep_secs
            /\ disk.max_sleep_secs = config.max_sleep_secs
            /\ disk.max_sleep_after_hours = config.max_sleep_after_hours)
    /\ [][(pc \in {"load", "sleep", "fetch"} /\ pc' # pc) => disk' = disk]_vars

\* C2 witness: an iteration ended on an unchanged remote that had been synced before
C2_Witness == cyc.same /\ pc = "load" /\ etag = "v2" /\ disk.remote # None

\* C3: when pull and unpack succeeded and the activation command reported
\* failure, the persisted lastVersionTag stays the one the iteration loaded.
C3_FailedActivationKeepsTag ==
    (cyc.pulled /\ cyc.mech = "nonzero") => disk.last_etag = config.last_etag

\* C4: the loop has no terminal state reachable through a transport,
\* unpack or activation failure.
RecoverableErrors == {"TransportError", "IoError"}

C4_NoExitOnRecoverableError == ~(pc = "exited" /\ cyc.err \in RecoverableErrors)

\* C5: when the `daemon` command's loop ends an iteration whose tag differed
\* and whose pull, unpack and activation succeeded, the persisted record holds
\* the fetched tag, stored in this iteration.
C5_DaemonCommandStoresTag ==
    (variant = "bin" /\ pc = "load" /\ cyc.pulled /\ cyc.activate = "Ok" /\ cyc.mech = "success")
        => (disk.last_etag = etag /\ cyc.stored)

\* C6: activate returns an error whenever the activation command reported
\* failure, and Ok only when it reported success.
C6_NonZeroIsActivationError ==
    /\ cyc.mech = "nonzero" => cyc.activate \notin {"Ok", "none"}
    /\ cyc.activate = "Ok" => cyc.mech = "success"

\* C10: a `set remote u` step stores the persisted record with remote = u and
\* a `set configuration c` step stores it with configuration = c; every other
\* field keeps its value.  (The steps that change neither pc, now nor
\* remoteTag are the `set` commands.)
C10_SetChangesOneField ==
    [][ (pc' = pc /\ now' = now /\ remoteTag' = remoteTag) =>
          disk' = IF cmd'.op = "set_remote"
                  THEN [disk EXCEPT !.remote = cmd'.arg]
                  ELSE IF cmd'.op = "set_configuration"
                  THEN [disk EXCEPT !.configuration = cmd'.arg]
                  ELSE disk ]_vars

\* C10 witness: `set remote` has run on a record the daemon had updated
C10_Witness ==
    /\ cmd.op = "set_remote"
    /\ disk.remote = cmd.arg
    /\ disk.last_etag = "v2"
    /\ disk.last_reconfiguration > 0
    /\ disk.configuration = "nodeA"

\* C13: an iteration that reaches pull has a temporary directory made for it
\* (none existed before, and it starts empty); the directory is gone when the
\* iteration ends, by completing or by an error; none exists while the daemon
\* loads, sleeps or fetches the tag.
C13_ScratchScoped ==
    /\ [](pc \in {"load", "sleep", "fetch", "tmpdir", "exited"} => scratch = NoDir)
    /\ [](pc \in {"pull", "activate", "store"} => scratch.exists)
    /\ [][(pc = "tmpdir" /\ pc' = "pull") => (scratch = NoDir /\ scratch' = EmptyDir)]_vars

\* C13 witness: an iteration pulled and activated a bundle and has ended; its
\* directory is gone
C13_Witness ==
    /\ pc = "load"
    /\ cyc.pulled
    /\ cyc.activate = "Ok"
    /\ cyc.activated \in Versions
    /\ scratch = NoDir

\* C14: a `set` command leaves its value in the persisted record, and an
\* iteration hands to get_etag and pull the remote, and to activate the
\* configuration, that the persisted record held when the iteration began.
C14_SetTakesEffect ==
    /\ [](cyc.fetched # NotYet => cyc.fetched = cyc.startRemote)
    /\ [](cyc.pulledFrom # NotYet => cyc.pulledFrom = cyc.startRemote)
    /\ [](cyc.flakeArg # NotYet => cyc.flakeArg = cyc.startConf)
    /\ [][cmd' # cmd =>
            /\ cmd'.op = "set_remote" => disk'.remote = cmd'.arg
            /\ cmd'.op = "set_configuration" => disk'.configuration = cmd'.arg]_vars

\* C14 witness: after an earlier iteration had stored a new tag, an iteration
\* began with the remote of the last `set remote` and pulled from it and
\* activated the configuration set by `set configuration`
C14_Witness ==
    /\ cmd.op = "set_remote"
    /\ cyc.startRemote = cmd.arg
    /\ cyc.pulledFrom = cmd.arg
    /\ cyc.flakeArg \in Confs
    /\ cyc.startTag # initTag

\* C15: when an iteration that activated a bundle and stored its tag ends with
\* the persisted tag equal to the tag now at the remote, the bundle it
\* activated is the one now at the remote.
C15_Convergence ==
    (/\ pc = "load"
     /\ cyc.stored
     /\ cyc.mech = "success"
     /\ disk.last_etag = TagAt(cyc.pulledFrom))
        => cyc.activated = TagAt(cyc.pulledFrom)

\* C17: the iteration's record changes only when the loop loads it, before the
\* sleep; the tag is compared with the tag of that record, get_etag and pull
\* get the same remote, the one of that record, and activate gets its
\* configuration, whatever is stored meanwhile.
C17_SingleSnapshot ==
    /\ [][config' # config => (pc = "load" /\ pc' = "sleep")]_vars
    /\ [](cyc.fetched # NotYet => cyc.fetched = config.remote)
    /\ [](cyc.compared # NotYet => cyc.compared = config.last_etag)
    /\ [](cyc.pulledFrom # NotYet =>
            (cyc.pulledFrom = cyc.fetched /\ cyc.pulledFrom = config.remote))
    /\ [](cyc.flakeArg # NotYet => cyc.flakeArg = config.configuration)

\* C17 witness: the iteration pulled from its own remote and activated its own
\* configuration while the persisted record already held another remote and
\* another configuration
C17_Witness ==
    /\ pc = "store"
    /\ cyc.pulledFrom \in S3Urls
    /\ disk.remote # cyc.pulledFrom
    /\ cyc.flakeArg \in Confs
    /\ disk.configuration # cyc.flakeArg
    /\ cyc.compared = config.last_etag

-----------------------------------------------------------------------------
(* SleepSpec: cur_rng_sleep_time applied to bounded inputs.  A record, a
   jitter draw and a time are chosen; the duration is computed; the clock
   moves on and the duration is computed again with the same record and draw. *)

\* Values of min_sleep_secs / max_sleep_secs, up to the top of the u64 range
SleepSecs == {0, 15, 120, 4000, I64Max, I64Max + 1, U64Max}

SleepHours == {0, 1, 2}

\* Clock values; last_reconfiguration is 0 or 10, so 0..9 lie before it
SleepTimes == {0, 5, 11, 1810, 3610, 3611, 5400, 7210, 7300}

SleepRecords ==
    { [ remote |-> None, configuration |-> None, last_reconfiguration |-> l,
        last_etag |-> "", min_sleep_secs |-> mn, max_sleep_secs |-> mx,
        max_sleep_after_hours |-> h ] :
      l \in {0, 10}, mn \in SleepSecs, mx \in SleepSecs, h \in SleepHours }

SleepInit ==
    /\ variant = "lib"
    /\ disk = DefaultConfig(0)
    /\ now = 0
    /\ remoteTag = [u \in S3Urls |-> "v1"]
    /\ pc = "load"
    /\ config = disk
    /\ etag = ""
    /\ scratch = NoDir
    /\ cyc = NewCycle
    /\ okTags = {}
    /\ initTag = ""
    /\ cmd = NoCmd
    /\ ops = OpsIdle
    /\ st = ConfigIdle
    /\ eq = EquivIdle
    /\ sl \in { [SleepIdle EXCEPT !.c = c, !.j = j, !.t = t, !.pt = t] :
                c \in SleepRecords, j \in Jitter, t \in SleepTimes }

\* let duration = self.cur_rng_sleep_time();
SleepCompute ==
    /\ ~sl.done
    /\ sl' = [sl EXCEPT !.done = TRUE, !.d = cur_rng_sleep_time(sl.c, sl.t, sl.j),
                        !.abort = rng_sleep(sl.c, sl.t, sl.j)]
    /\ UNCHANGED daemonVars
    /\ UNCHANGED <<ops, st, eq>>

\* Time passes; the previous evaluation is kept for comparison.
SleepLater(t2) ==
    /\ sl.done
    /\ t2 > sl.t
    /\ sl' = [sl EXCEPT !.pt = sl.t, !.pdone = TRUE, !.pd = sl.d,
                        !.t = t2, !.done = FALSE, !.d = 0, !.abort = "none"]
    /\ UNCHANGED daemonVars
    /\ UNCHANGED <<ops, st, eq>>

SleepNext ==
    \/ SleepCompute
    \/ \E t2 \in SleepTimes : SleepLater(t2)

SleepSpec == SleepInit /\ [][SleepNext]_vars

\* Elapsed seconds since last_reconfiguration at clock value t
Elapsed(t) == t - sl.c.last_reconfiguration

\* C7: with min_sleep_secs <= max_sleep_secs the computed duration is at
\* least min_sleep_secs and at most 1.5 * max_sleep_secs.
C7_SleepWithinBounds ==
    (/\ sl.done
     /\ sl.abort = "none"
     /\ sl.c.min_sleep_secs <= sl.c.max_sleep_secs
     /\ Elapsed(sl.t) >= 0)
        => (sl.c.min_sleep_secs <= sl.d /\ 2 * sl.d <= 3 * sl.c.max_sleep_secs)

\* C8: with the record and the jitter draw fixed, a later clock value never
\* gives a shorter duration, and from max_sleep_after_hours * 3600 elapsed
\* seconds on the duration no longer changes.
C8_SleepMonotone ==
    (sl.done /\ sl.pdone) =>
        /\ sl.pd <= sl.d
        /\ Elapsed(sl.pt) >= sl.c.max_sleep_after_hours * SecsPerHour => sl.pd = sl.d

\* C8 witness: the duration grew between two evaluations, and another pair of
\* evaluations beyond the plateau is possible with the same tuning
C8_Witness ==
    /\ sl.done
    /\ sl.pdone
    /\ sl.pd < sl.d
    /\ Elapsed(sl.pt) >= 0

-----------------------------------------------------------------------------
(* OpsSpec: the one-shot operations push, pack, activate, pull and get_etag
   on a small file system and remote store. *)

Dirs == {"dirA", "dirB"}

OutFiles == {"out1", "out2"}

Absent == "absent"

NoOp ==
    [ op |-> "none", url |-> None, flake |-> FALSE, result |-> "none",
      spawned |-> FALSE, created |-> FALSE, ran |-> FALSE, uploaded |-> FALSE ]

OpsInit ==
    /\ variant = "lib"
    /\ disk = DefaultConfig(0)
    /\ now = 0
    /\ remoteTag = [u \in S3Urls |-> "v1"]
    /\ pc = "load"
    /\ config = disk
    /\ etag = ""
    /\ scratch = NoDir
    /\ cyc = NewCycle
    /\ okTags = {}
    /\ initTag = ""
    /\ cmd = NoCmd
    /\ sl = SleepIdle
    /\ st = ConfigIdle
    /\ eq = EquivIdle
    /\ ops \in { [dirs |-> f, files |-> {}, store |-> [u \in S3Urls |-> Absent], last |-> NoOp] :
                 f \in [Dirs -> BOOLEAN] }

\* npcnix::push(src, remote): on success the remote object is src's bundle
OpPush(src, u, aws) ==
    /\ LET r == push(ops.dirs[src], u, aws)
       IN  ops' = [ops EXCEPT
                     !.store = IF r.uploaded THEN [@ EXCEPT ![u] = src] ELSE @,
                     !.last = [NoOp EXCEPT !.op = "push", !.url = u, !.flake = ops.dirs[src],
                                           !.result = r.result, !.spawned = r.spawned,
                                           !.uploaded = r.uploaded]]
    /\ UNCHANGED daemonVars
    /\ UNCHANGED <<sl, st, eq>>

\* npcnix::pack(src, dst)
OpPack(src, dst) ==
    /\ LET r == pack(ops.dirs[src], dst \in ops.files)
       IN  ops' = [ops EXCEPT
                     !.files = IF r.created THEN @ \cup {dst} ELSE @,
                     !.last = [NoOp EXCEPT !.op = "pack", !.flake = ops.dirs[src],
                                           !.result = r.result, !.created = r.created]]
    /\ UNCHANGED daemonVars
    /\ UNCHANGED <<sl, st, eq>>

\* npcnix::activate(src, configuration)
OpActivate(src, mech) ==
    /\ LET r == activate(ops.dirs[src], mech)
       IN  ops' = [ops EXCEPT
                     !.last = [NoOp EXCEPT !.op = "activate", !.flake = ops.dirs[src],
                                           !.result = r.result, !.ran = r.ran]]
    /\ UNCHANGED daemonVars
    /\ UNCHANGED <<sl, st, eq>>

\* npcnix::pull(remote, dst): a pushed bundle holds flake.nix
OpPull(u, dst, aws, unpackOk) ==
    /\ LET present == u \in S3Urls /\ ops.store[u] # Absent
           r == pull(u, "v1", IF present \/ aws = "spawn_error" THEN aws ELSE "nonzero", unpackOk)
       IN  ops' = [ops EXCEPT
                     !.dirs = IF r.dst.exists THEN [@ EXCEPT ![dst] = @ \/ r.dst.flake] ELSE @,
                     !.last = [NoOp EXCEPT !.op = "pull", !.url = u, !.flake = ops.dirs[dst],
                                           !.result = r.result, !.spawned = r.spawned,
                                           !.created = r.dst.exists]]
    /\ UNCHANGED daemonVars
    /\ UNCHANGED <<sl, st, eq>>

\* npcnix::get_etag(remote)
OpGetEtag(u, aws) ==
    /\ LET present == u \in S3Urls /\ ops.store[u] # Absent
           r == get_etag(u, IF present THEN ops.store[u] ELSE "",
                         IF present \/ aws = "spawn_error" THEN aws ELSE "nonzero")
       IN  ops' = [ops EXCEPT
                     !.last = [NoOp EXCEPT !.op = "get_etag", !.url = u, !.result = r.result,
                                           !.spawned = r.spawned]]
    /\ UNCHANGED daemonVars
    /\ UNCHANGED <<sl, st, eq>>

\* Somebody adds flake.nix to a directory or removes it.
ToggleFlake(d) ==
    /\ ops' = [ops EXCEPT !.dirs[d] = ~@]
    /\ UNCHANGED daemonVars
    /\ UNCHANGED <<sl, st, eq>>

OpsNext ==
    \/ \E src \in Dirs, u \in Urls, aws \in CmdOutcomes : OpPush(src, u, aws)
    \/ \E src \in Dirs, dst \in OutFiles : OpPack(src, dst)
    \/ \E src \in Dirs, mech \in CmdOutcomes : OpActivate(src, mech)
    \/ \E u \in Urls, dst \in Dirs, aws \in CmdOutcomes, unpackOk \in BOOLEAN :
          OpPull(u, dst, aws, unpackOk)
    \/ \E u \in Urls, aws \in CmdOutcomes : OpGetEtag(u, aws)
    \/ \E d \in Dirs : ToggleFlake(d)

OpsSpec == OpsInit /\ [][OpsNext]_vars

\* C9: push, pack and activate on a source directory without flake.nix fail
\* with the validation error and start nothing: no transport subprocess, no
\* upload, no output file, no activation command.
C9_ValidationFirst ==
    (ops.last.op \in {"push", "pack", "activate"} /\ ~ops.last.flake) =>
        /\ ops.last.result = "ValidationError"
        /\ ~ops.last.spawned
        /\ ~ops.last.uploaded
        /\ ~ops.last.created
        /\ ~ops.last.ran

\* C9 witness: push was refused on a directory without flake.nix, after
\* earlier operations on valid sources had gone through
C9_Witness ==
    /\ ops.last.op = "push"
    /\ ~ops.last.flake
    /\ ops.last.result = "ValidationError"
    /\ ops.files # {}
    /\ \E u \in S3Urls : ops.store[u] # Absent


\* C12 as stated: for a remote whose scheme is not "s3", get_etag, pull and
\* push each fail with the unsupported-scheme error, start no transport
\* subprocess and create or upload nothing.
C12_UnsupportedSchemeAlways ==
    (ops.last.op \in {"get_etag", "pull", "push"} /\ ops.last.url \notin S3Urls) =>
        /\ ops.last.result = "UnsupportedScheme"
        /\ ~ops.last.spawned
        /\ ~ops.last.created
        /\ ~ops.last.uploaded

\* C12, amended: for a remote whose scheme is not "s3", get_etag, pull, and
\* push on a source directory that holds flake.nix, each fail with the
\* unsupported-scheme error, which is neither the transport error nor the
\* I/O error; push on a source without flake.nix fails too; none of them
\* starts a transport subprocess or creates or uploads anything.
C12_UnsupportedScheme ==
    (ops.last.op \in {"get_etag", "pull", "push"} /\ ops.last.url \notin S3Urls) =>
        /\ (ops.last.op = "push" /\ ~ops.last.flake) => ops.last.result = "ValidationError"
        /\ (ops.last.op # "push" \/ ops.last.flake) => ops.last.result = "UnsupportedScheme"
        /\ ops.last.result \notin {"Ok", "TransportError", "IoError"}
        /\ ~ops.last.spawned
        /\ ~ops.last.created
        /\ ~ops.last.uploaded

\* C12 witness: push of a valid source to a remote without backend was
\* refused with the unsupported-scheme error
C12_Witness ==
    /\ ops.last.op = "push"
    /\ ops.last.url \notin S3Urls
    /\ ops.last.flake
    /\ ops.last.result = "UnsupportedScheme"

-----------------------------------------------------------------------------
(* ConfigSpec: the record file and a record in memory.  The record is loaded,
   derived with the init forms of `set`, stored, and the file is removed or
   replaced from outside. *)

\* Values of the tuning fields: the defaults and the ends of the u64 range
ConfigTunings == {<<15, 120, 24>>, <<0, U64Max, 1>>}

ConfigRecords ==
    { [ remote |-> r, configuration |-> c, last_reconfiguration |-> l,
        last_etag |-> e, min_sleep_secs |-> tu[1], max_sleep_secs |-> tu[2],
        max_sleep_after_hours |-> tu[3] ] :
      r \in {None, "s3://a/cfg"}, c \in {None, "nodeA"}, l \in {2},
      e \in {"", "v1"}, tu \in ConfigTunings }

\* A document written before the tuning fields existed
OldDoc ==
    [ k \in Keys |->
        CASE k = "remote" -> JStr("s3://b/cfg")
          [] k = "configuration" -> JNull
          [] k = "last_reconfiguration" -> JDate(1)
          [] k = "last_etag" -> JStr("v2")
          [] OTHER -> Missing ]

\* A document without the version tag
NoTagDoc == [OldDoc EXCEPT !["last_etag"] = Missing]

ForeignFiles == {NoFile, CorruptFile, JsonFile(OldDoc), JsonFile(NoTagDoc)}

NoResult == [ok |-> FALSE, val |-> None]

NoDerivation == [arg |-> None, init |-> FALSE, before |-> None, after |-> None, twice |-> None]

ConfigInit ==
    /\ variant = "lib"
    /\ disk = DefaultConfig(0)
    /\ now = 0
    /\ remoteTag = [u \in S3Urls |-> "v1"]
    /\ pc = "load"
    /\ config = disk
    /\ etag = ""
    /\ scratch = NoDir
    /\ cyc = NewCycle
    /\ okTags = {}
    /\ initTag = ""
    /\ cmd = NoCmd
    /\ sl = SleepIdle
    /\ ops = OpsIdle
    /\ eq = EquivIdle
    /\ st \in { [ op |-> "start", file |-> f, rec |-> r, res |-> NoResult,
                   read |-> "none", stored |-> None, fresh |-> FALSE, d |-> NoDerivation ] :
                 f \in ForeignFiles, r \in ConfigRecords }

\* self.data_dir().load_config(): the record in memory is the one loaded
ConfigLoad ==
    LET r == DataDir_load_config(st.file, now)
    IN  /\ st' = [st EXCEPT !.op = "load", !.res = r, !.read = st.file.kind,
                            !.rec = IF r.ok THEN r.val ELSE st.rec,
                            !.d = NoDerivation]
        /\ UNCHANGED daemonVars
        /\ UNCHANGED <<sl, ops, eq>>

\* Config::store of the record in memory
ConfigStore ==
    /\ st' = [st EXCEPT !.op = "store", !.file = Config_store(st.rec),
                        !.stored = st.rec, !.fresh = TRUE,
                        !.res = NoResult, !.read = "none", !.d = NoDerivation]
    /\ UNCHANGED daemonVars
    /\ UNCHANGED <<sl, ops, eq>>

\* The file is removed or replaced by something else than Config::store.
ConfigForeign(f) ==
    /\ st.file # f
    /\ st' = [st EXCEPT !.op = "foreign", !.file = f, !.fresh = FALSE,
                        !.stored = None,
                        !.res = NoResult, !.read = "none", !.d = NoDerivation]
    /\ UNCHANGED daemonVars
    /\ UNCHANGED <<sl, ops, eq>>

\* config.with_remote_maybe_init(remote, init), once and once more
ConfigInitRemote(u, init) ==
    LET after == with_remote_maybe_init(st.rec, u, init)
    IN  /\ st' = [st EXCEPT !.op = "remote", !.rec = after,
                            !.res = NoResult, !.read = "none",
                            !.d = [ arg |-> u, init |-> init, before |-> st.rec,
                                    after |-> after,
                                    twice |-> with_remote_maybe_init(after, u, init) ]]
        /\ UNCHANGED daemonVars
        /\ UNCHANGED <<sl, ops, eq>>

\* config.with_configuration_maybe_init(configuration, init), once and once more
ConfigInitConfiguration(c, init) ==
    LET after == with_configuration_maybe_init(st.rec, c, init)
    IN  /\ st' = [st EXCEPT !.op = "configuration", !.rec = after,
                            !.res = NoResult, !.read = "none",
                            !.d = [ arg |-> c, init |-> init, before |-> st.rec,
                                    after |-> after,
                                    twice |-> with_configuration_maybe_init(after, c, init) ]]
        /\ UNCHANGED daemonVars
        /\ UNCHANGED <<sl, ops, eq>>

ConfigNext ==
    \/ ConfigLoad
    \/ ConfigStore
    \/ \E f \in ForeignFiles : ConfigForeign(f)
    \/ \E u \in S3Urls, init \in BOOLEAN : ConfigInitRemote(u, init)
    \/ \E c \in Confs, init \in BOOLEAN : ConfigInitConfiguration(c, init)

ConfigSpec == ConfigInit /\ [][ConfigNext]_vars

\* C11: loading when no file exists gives a record with the empty version tag
\* and the tuning 15 / 120 / 24 instead of an error, and loading the file that
\* store wrote gives the stored record back in every field.
C11_LoadDefaultsAndRoundTrip ==
    /\ (st.op = "load" /\ st.read = "absent") =>
            /\ st.res.ok
            /\ st.res.val.last_etag = ""
            /\ st.res.val.remote = None
            /\ st.res.val.configuration = None
            /\ st.res.val.min_sleep_secs = 15
            /\ st.res.val.max_sleep_secs = 120
            /\ st.res.val.max_sleep_after_hours = 24
    /\ (st.op = "load" /\ st.fresh) =>
            /\ st.res.ok
            /\ st.res.val = st.stored

\* C11 witness: a record with tuning other than the defaults and both optional
\* fields set was stored and loaded back
C11_Witness ==
    /\ st.op = "load"
    /\ st.fresh
    /\ st.res.ok
    /\ st.res.val.min_sleep_secs # default_min_sleep_secs
    /\ st.res.val.remote # None
    /\ st.res.val.configuration # None
    /\ st.res.val.last_etag # ""

\* C18: with init = TRUE and the field set the record comes back unchanged;
\* with init = FALSE or the field absent the result is that of with_remote /
\* with_configuration; applying the init = TRUE form twice equals applying it once.
C18_MaybeInitKeepsExisting ==
    /\ st.op = "remote" =>
            /\ (st.d.init /\ st.d.before.remote # None) => st.d.after = st.d.before
            /\ (~st.d.init \/ st.d.before.remote = None) =>
                    /\ st.d.after = with_remote(st.d.before, st.d.arg)
                    /\ st.d.after.remote = st.d.arg
            /\ st.d.init => st.d.twice = st.d.after
    /\ st.op = "configuration" =>
            /\ (st.d.init /\ st.d.before.configuration # None) => st.d.after = st.d.before
            /\ (~st.d.init \/ st.d.before.configuration = None) =>
                    /\ st.d.after = with_configuration(st.d.before, st.d.arg)
                    /\ st.d.after.configuration = st.d.arg
            /\ st.d.init => st.d.twice = st.d.after

\* C18 witness: the init form was applied to a record whose remote is set to
\* another URL, and left it alone
C18_Witness ==
    /\ st.op = "remote"
    /\ st.d.init
    /\ st.d.before.remote # None
    /\ st.d.before.remote # st.d.arg
    /\ st.d.after.remote = st.d.before.remote

-----------------------------------------------------------------------------
(* EquivSpec: npcnix::daemon and npcnix_daemon side by side.  Both start from
   the same persisted record and are given, iteration by iteration, the same
   remote tag and the same outcomes of loading, fetching, pulling, activating
   and storing. *)

\* Iterations each loop is run for
MaxIter == 2

\* One iteration of the loop of variant v on the persisted record d, as a
\* function of what the environment does (in): the record it leaves, the
\* external actions it took, and the error it returned ("none": it loops on).
iteration(v, d, in) ==
    LET c == daemon_config(d, d)
        u == daemon_remote(c, d)
        f == get_etag(u.val, in.tag, in.fetch)
        p == pull(u.val, in.tag, in.pull, in.unpackOk)
        a == activate(p.dst.flake, in.mech)
        aFetch == <<[act |-> "fetch", arg |-> u.val]>>
        aPull == aFetch \o <<[act |-> "pull", arg |-> u.val]>>
        aAct == aPull \o <<[act |-> "activate", arg |-> configuration(c).val]>>
        out(rec, acts, err) == [disk |-> rec, acts |-> acts, err |-> err]
    IN  IF ~in.loadOk THEN out(d, <<>>, "ConfigurationError")
        ELSE IF ~u.ok THEN out(d, <<>>, "ConfigurationError")
        ELSE IF f.result # "Ok" THEN out(d, aFetch, f.result)
        ELSE IF remote_not_changed(c, f.etag) THEN out(d, aFetch, "none")
        ELSE IF ~in.tmpOk THEN out(d, aFetch, "IoError")
        ELSE IF p.result # "Ok" THEN out(d, aPull, p.result)
        ELSE IF ~configuration(c).ok THEN out(d, aPull, "ConfigurationError")
        ELSE IF a.result # "Ok" THEN out(d, aAct, a.result)
        ELSE IF v = "bin" THEN out(d, aAct, "none")
        ELSE IF ~in.storeOk THEN out(d, aAct, "ConfigurationError")
        ELSE out(update_last_reconfiguration(d, f.etag, in.t), aAct, "none")

\* What the environment does during one iteration
IterationInputs(tag, t) ==
    [ loadOk : BOOLEAN, tag : {tag}, fetch : CmdOutcomes, tmpOk : BOOLEAN,
      pull : CmdOutcomes, unpackOk : BOOLEAN, mech : CmdOutcomes,
      storeOk : BOOLEAN, t : {t} ]

EquivRecords ==
    { [ remote |-> r, configuration |-> c, last_reconfiguration |-> 0,
        last_etag |-> e, min_sleep_secs |-> 1, max_sleep_secs |-> 2,
        max_sleep_after_hours |-> 0 ] :
      r \in {None, "s3://a/cfg", "ftp://c/cfg"}, c \in {None, "nodeA"},
      e \in {"", "v1"} }

EquivInit ==
    /\ variant = "lib"
    /\ disk = DefaultConfig(0)
    /\ now = 0
    /\ remoteTag = [u \in S3Urls |-> "v1"]
    /\ pc = "load"
    /\ config = disk
    /\ etag = ""
    /\ scratch = NoDir
    /\ cyc = NewCycle
    /\ okTags = {}
    /\ initTag = ""
    /\ cmd = NoCmd
    /\ sl = SleepIdle
    /\ ops = OpsIdle
    /\ st = ConfigIdle
    /\ eq \in { [ n |-> 0, tag |-> "v1",
                   lib |-> [disk |-> d, acts |-> <<>>, err |-> "none"],
                   bin |-> [disk |-> d, acts |-> <<>>, err |-> "none"] ] :
                 d \in EquivRecords }

\* Both loops run their next iteration, with the same inputs.
EquivIterate(in) ==
    /\ eq.n < MaxIter
    /\ eq.lib.err = "none"
    /\ eq.bin.err = "none"
    /\ eq' = [eq EXCEPT !.n = @ + 1,
                        !.lib = iteration("lib", eq.lib.disk, in),
                        !.bin = iteration("bin", eq.bin.disk, in)]
    /\ UNCHANGED daemonVars
    /\ UNCHANGED <<sl, ops, st>>

\* Somebody replaces the object stored at the remote.
EquivRemoteChange(v) ==
    /\ eq.tag # v
    /\ eq' = [eq EXCEPT !.tag = v]
    /\ UNCHANGED daemonVars
    /\ UNCHANGED <<sl, ops, st>>

EquivNext ==
    \/ \E in \in IterationInputs(eq.tag, eq.n + 1) : EquivIterate(in)
    \/ \E v \in Versions : EquivRemoteChange(v)

EquivSpec == EquivInit /\ [][EquivNext]_vars

\* C16: run on the same record with the same remote tags and outcomes, the
\* two loops take the same fetch, pull and activate actions, return the same
\* error or none, and leave the same persisted record, iteration after
\* iteration.
C16_LoopsEquivalent ==
    /\ eq.lib.acts = eq.bin.acts
    /\ eq.lib.disk = eq.bin.disk

====
